---- MODULE Spec2Model ----
(***************************************************************************)
(* Model of httpux.HTTPUClient (src/httpux/httpux.go): one client owning   *)
(* a UDP socket (conn), its lock (connLock) and its response channel       *)
(* (receiver); operations DoWithContext (two tasks joined by an            *)
(* errgroup: the periodic sender startLoopSendHTTPURequest and the reader  *)
(* startReceiveResponse), the per-send cancellation watcher goroutine of   *)
(* sendHTTPURequest, and Close.                                            *)
(*                                                                         *)
(* The socket, the ticker, the context and the errgroup are library        *)
(* objects; they are modelled by their Go semantics:                       *)
(*  - a read or write on a closed UDP socket fails with a non-timeout,     *)
(*    non-temporary net.Error; closing unblocks a pending read;            *)
(*  - a read or write on an open socket whose deadline is in the past      *)
(*    fails with a timeout net.Error, also when a datagram is queued;      *)
(*    otherwise a read blocks until the network delivers a datagram or an  *)
(*    error;                                                               *)
(*  - SetDeadline on a closed socket returns an error and changes nothing; *)
(*  - a time.Ticker channel buffers one tick and drops ticks while full;   *)
(*  - a select with several ready cases takes any of them;                 *)
(*  - errgroup.Group keeps the first non-nil error, Wait returns it once   *)
(*    every task has returned;                                             *)
(*  - close of a nil or of a closed channel panics; the deferred Unlock    *)
(*    runs and the statement after the close is not reached.               *)
(* Writes into a bytes.Buffer return a nil error, so the error returns of  *)
(* lines 150-158 are not reachable and have no transition here.            *)
(* Operations follow one another on the same client (one at a time, as the *)
(* source documents); the per-operation variables are those of the current *)
(* or last one.                                                            *)
(***************************************************************************)
EXTENDS Naturals, Sequences, FiniteSets, TLC

\* ---- bounds of the model ----
MaxHeld == 1         \* requests whose context a goroutine still holds: the
                     \* current one and earlier ones with a live watcher
MaxSends == 2        \* sendHTTPURequest calls per operation
MaxDatagrams == 2    \* responses read from the socket per operation
MaxCloses == 2       \* Close calls on the client

\* datagram payloads: not an HTTP response; a response; a response that
\* already carries a goupnp-local-address header field
DatagramKinds == {"garbage", "ok", "okHdr"}

Parses(d) == d # "garbage"

\* number of goupnp-local-address values in the datagram as parsed
InboundLocalHeaders(d) == IF d = "okHdr" THEN 1 ELSE 0

\* errors of sendHTTPURequest: ResolveUDPAddr failed, WriteTo failed (closed
\* socket, deadline in the past, network error), WriteTo wrote too little
SendErrors == {"ResolveErr", "WriteErr", "ShortWrite"}

\* read errors startReceiveResponse returns: the socket is closed; another
\* error that is neither a timeout nor temporary
ReadErrorsReturned == {"ReadClosed", "ReadFatal"}

\* ctx.Err() of a context that is done: context.Canceled or
\* context.DeadlineExceeded, both non-nil
CtxErrors == {"CtxErr"}

VARIABLES
    receiver,      \* httpu.receiver: "nil", "open" or "closed"
    receiverSent,  \* responses sent on httpu.receiver in the current
                   \* operation (no statement of the source sends on it)
    connLock,      \* httpu.connLock is held
    connClosed,    \* httpu.conn has been closed
    deadlinePast,  \* httpu.conn's read/write deadline lies in the past
    closePc,       \* position of the Close call holding connLock
    closeRets,     \* outcomes of the Close calls that have ended, in order:
                   \* "nil", "ErrClosed" (conn.Close failed) or "panic"
    opPc,          \* "idle", "running", "returned"
    opResult,      \* error returned by the current DoWithContext
    ctxState,      \* the contexts of the requests still held, "active" or
                   \* "done": first the one of the current (or last)
                   \* operation, "none" before the first operation, then
                   \* those of earlier operations with a live watcher
    txPc,          \* startLoopSendHTTPURequest: "idle", "select", "write", "done"
    txErr,         \* its return value
    tickPending,   \* a tick is buffered in ticker.C
    ticks,         \* ticks the ticker has put into ticker.C in the current
                   \* operation
    sends,         \* sendHTTPURequest calls in the current operation
    earlyCancel,   \* the context was done before the ticker's first tick in
                   \* the current operation and the sender has not left its
                   \* select since
    lateSend,      \* one of them was made when the context was already done
    watching,      \* the watcher of the send in progress has not yet chosen
    lingering,     \* per held request: watchers of finished sends (done is
                   \* closed) that have not yet chosen
    watcherStarts, \* watcher goroutines started in the current operation
    colPc,         \* startReceiveResponse: "idle", "read", "sleep", "done"
    colErr,        \* its return value
    nParsed,       \* datagrams parsed as responses in the current operation
    response,      \* the loop's variable response: st is "unset", "nil"
                   \* after a parse error or "parsed"; localAddr is the
                   \* number of goupnp-local-address values it carries
    gErr,          \* errgroup.Group.err
    firstDone      \* the task that returned first: "none", "tx", "col"

vars == <<receiver, receiverSent, connLock, connClosed, deadlinePast,
          closePc, closeRets, opPc, opResult,
          ctxState, txPc, txErr, tickPending, ticks, sends, earlyCancel,
          lateSend, watching, lingering, watcherStarts, colPc, colErr, nParsed, response,
          gErr, firstDone>>

clientVars == <<receiver, receiverSent, connLock, connClosed,
                closePc, closeRets>>
sockVars == <<deadlinePast>>
opVars == <<opPc, opResult>>
txVars == <<txPc, txErr, tickPending, ticks, sends, earlyCancel,
           lateSend>>
watchVars == <<watching, lingering, watcherStarts>>
colVars == <<colPc, colErr, nParsed, response>>
grpVars == <<gErr, firstDone>>

\* ctx.Done() of operation o is closed
CtxDone(o) == ctxState[o] = "done"

\* ctx.Err() of operation o
CtxErr(o) == IF CtxDone(o) THEN "CtxErr" ELSE "nil"

\* the held requests
HeldOps == DOMAIN ctxState

\* the context of the current operation is done
CurDone == CtxDone(1)

\* the entries of f, one per held request, that stay held when the watchers
\* are ling: the current request and the earlier ones with a live watcher
Indices(f) == [i \in 1..Len(f) |-> i]
StillHeld(f, ling) ==
    LET keep == SelectSeq(Indices(f), LAMBDA i : i = 1 \/ ling[i] > 0)
    IN  [k \in 1..Len(keep) |-> f[keep[k]]]

\* the entries of f of the requests with a live watcher
WithWatcher(f) ==
    LET keep == SelectSeq(Indices(f), LAMBDA i : lingering[i] > 0)
    IN  [k \in 1..Len(keep) |-> f[keep[k]]]

\* values of the reader's variable response
Unset == [st |-> "unset", localAddr |-> 0]
NilResponse == [st |-> "nil", localAddr |-> 0]
Parsed(n) == [st |-> "parsed", localAddr |-> n]

\* NewHTTPUClient makes the receiver channel; NewHTTPUClientAddr leaves it nil
NewHTTPUClient == "open"
NewHTTPUClientAddr == "nil"

Init ==
    /\ receiver \in {NewHTTPUClient, NewHTTPUClientAddr}
    /\ receiverSent = 0
    /\ connLock = FALSE
    /\ connClosed = FALSE
    /\ deadlinePast = FALSE
    /\ closePc = "none"
    /\ closeRets = <<>>
    /\ opPc = "idle"
    /\ opResult = "none"
    /\ ctxState = <<"none">>
    /\ txPc = "idle"
    /\ txErr = "nil"
    /\ tickPending = FALSE
    /\ ticks = 0
    /\ earlyCancel = FALSE
    /\ sends = 0
    /\ lateSend = FALSE
    /\ watching = FALSE
    /\ lingering = <<0>>
    /\ watcherStarts = 0
    /\ colPc = "idle"
    /\ colErr = "nil"
    /\ nParsed = 0
    /\ response = Unset
    /\ gErr = "nil"
    /\ firstDone = "none"

\* ---- errgroup.Group ----

\* a task function returned err: errOnce keeps the first non-nil error
GroupErr(g, err) == IF g = "nil" THEN err ELSE g

\* tasks.Wait() returns once both task functions have returned
WaitReadyAny == txPc = "done" \/ colPc = "done"
WaitReady == txPc = "done" /\ colPc = "done"

\* ---- DoWithContext / Do ----

\* the call: both tasks are started on the client's socket. The request's
\* context is "active" until it fires, which it need not do.
DoWithContext ==
    /\ opPc \in {"idle", "returned"}
    /\ Len(WithWatcher(lingering)) < MaxHeld
    /\ ctxState' = <<"active">> \o WithWatcher(ctxState)
    /\ lingering' = <<0>> \o WithWatcher(lingering)
    /\ opPc' = "running"
    /\ opResult' = "none"
    /\ txPc' = "select" /\ txErr' = "nil"
    /\ tickPending' = FALSE /\ sends' = 0 /\ lateSend' = FALSE
    /\ ticks' = 0 /\ earlyCancel' = FALSE
    /\ watcherStarts' = 0
    /\ colPc' = "read" /\ colErr' = "nil"
    /\ nParsed' = 0 /\ response' = Unset
    /\ gErr' = "nil" /\ firstDone' = "none"
    /\ receiverSent' = 0
    /\ UNCHANGED <<receiver, connLock, connClosed, closePc, closeRets,
                   sockVars, watching>>

\* return tasks.Wait()
DoReturn ==
    /\ opPc = "running"
    /\ WaitReady
    /\ opPc' = "returned"
    /\ opResult' = gErr
    /\ UNCHANGED <<clientVars, sockVars, ctxState, txVars,
                   watchVars, colVars, grpVars>>

\* the request's context is cancelled or its deadline expires
CtxFire ==
    /\ \E o \in HeldOps :
          /\ ctxState[o] = "active"
          /\ \/ (o = 1 /\ opPc = "running")
             \/ lingering[o] > 0
          /\ ctxState' = [ctxState EXCEPT ![o] = "done"]
          /\ earlyCancel' = (earlyCancel \/ (o = 1 /\ ticks = 0))
    /\ UNCHANGED <<clientVars, sockVars, opVars, txPc, txErr, tickPending,
                   ticks, sends, lateSend, watchVars, colVars, grpVars>>

\* ---- startLoopSendHTTPURequest ----

\* the ticker fires; its channel holds one tick, a tick that finds it full
\* is dropped
Tick ==
    /\ opPc = "running"
    /\ txPc \in {"select", "write"}
    /\ ~tickPending
    /\ sends < MaxSends
    /\ tickPending' = TRUE
    /\ ticks' = ticks + 1
    /\ UNCHANGED <<clientVars, sockVars, opVars, ctxState, txPc, txErr, sends,
                   earlyCancel, lateSend, watchVars, colVars, grpVars>>

\* the sender task returns err to the group
TxReturnBreaks(err) ==
    /\ txPc' = "select"
    /\ txErr' = err
    /\ UNCHANGED grpVars
TxReturn(err) ==
    /\ txPc' = "done"
    /\ txErr' = err
    /\ gErr' = GroupErr(gErr, err)
    /\ firstDone' = IF firstDone = "none" THEN "tx" ELSE firstDone

\* case <-ticker.C: sendHTTPURequest up to the start of the watcher;
\* net.ResolveUDPAddr(req.Host) succeeds or fails
TxSendStartNoTick ==
    /\ txPc = "select"
    /\ sends <= MaxSends
    /\ tickPending' = FALSE
    /\ sends' = sends + 1
    /\ lateSend' = (lateSend \/ CurDone)
    /\ earlyCancel' = FALSE
    /\ \E resolved \in BOOLEAN :
          IF resolved
            THEN /\ watching' = TRUE
                 /\ watcherStarts' = watcherStarts + 1
                 /\ txPc' = "write"
                 /\ UNCHANGED <<txErr, grpVars>>
            ELSE /\ TxReturn("ResolveErr")
                 /\ UNCHANGED <<watching, watcherStarts>>
    /\ UNCHANGED <<clientVars, sockVars, opVars, ctxState, ticks,
                   lingering, colVars>>
TxSendStart ==
    /\ txPc = "select"
    /\ tickPending
    /\ tickPending' = FALSE
    /\ sends' = sends + 1
    /\ lateSend' = (lateSend \/ CurDone)
    /\ earlyCancel' = FALSE
    /\ \E resolved \in BOOLEAN :
          IF resolved
            THEN /\ watching' = TRUE
                 /\ watcherStarts' = watcherStarts + 1
                 /\ txPc' = "write"
                 /\ UNCHANGED <<txErr, grpVars>>
            ELSE /\ TxReturn("ResolveErr")
                 /\ UNCHANGED <<watching, watcherStarts>>
    /\ UNCHANGED <<clientVars, sockVars, opVars, ctxState, ticks,
                   lingering, colVars>>

\* results conn.WriteTo can have in the socket's current state
WriteOutcomesIgnoreDeadline ==
    IF connClosed THEN {"WriteErr"}
    ELSE {"nil", "WriteErr", "ShortWrite"}
WriteOutcomes ==
    IF connClosed \/ deadlinePast THEN {"WriteErr"}
    ELSE {"nil", "WriteErr", "ShortWrite"}

\* where the sender goes after a send that returned nil: the for loop has no
\* exit, it selects again
AfterSendReturns == "done"
AfterSend == "select"

\* conn.WriteTo, the length check, the deferred close(done) and the return
TxWriteNoCloseDone ==
    /\ txPc = "write"
    /\ \E r \in WriteOutcomes :
          IF r = "nil" /\ AfterSend = "select"
            THEN /\ txPc' = "select"
                 /\ UNCHANGED <<txErr, grpVars>>
            ELSE TxReturn(r)
    /\ UNCHANGED <<clientVars, sockVars, opVars, ctxState, tickPending,
                   ticks, sends, earlyCancel, lateSend, watchVars, colVars>>
TxWrite ==
    /\ txPc = "write"
    /\ \E r \in WriteOutcomes :
          IF r = "nil" /\ AfterSend = "select"
            THEN /\ txPc' = "select"
                 /\ UNCHANGED <<txErr, grpVars>>
            ELSE TxReturn(r)
    /\ watching' = FALSE
    /\ lingering' = IF watching
                      THEN [lingering EXCEPT ![1] = @ + 1]
                      ELSE lingering
    /\ UNCHANGED <<clientVars, sockVars, opVars, ctxState, tickPending,
                   ticks, sends, earlyCancel, lateSend, watcherStarts,
                   colVars>>

\* case <-ctx.Done(): return ctx.Err()
TxCtxDone ==
    /\ txPc = "select"
    /\ CurDone
    /\ TxReturn(CtxErr(1))
    /\ earlyCancel' = FALSE
    /\ UNCHANGED <<clientVars, sockVars, opVars, ctxState, tickPending,
                   ticks, sends, lateSend, watchVars, colVars>>

\* ---- the watcher goroutine of sendHTTPURequest ----

\* conn.SetDeadline(time.Now().Add(-time.Second))
SetDeadlinePast == deadlinePast' = (deadlinePast \/ ~connClosed)

\* a watcher of held request o, whose done channel is closed, returns
WatcherExits(o) ==
    LET ling == [lingering EXCEPT ![o] = @ - 1]
    IN  /\ lingering' = StillHeld(ling, ling)
        /\ ctxState' = StillHeld(ctxState, ling)

\* case <-ctx.Done(): force the deadline into the past
WatcherCtx ==
    /\ \/ /\ watching
          /\ CurDone
          /\ watching' = FALSE
          /\ UNCHANGED <<lingering, ctxState>>
       \/ /\ \E o \in HeldOps :
                /\ lingering[o] > 0
                /\ CtxDone(o)
                /\ WatcherExits(o)
          /\ UNCHANGED watching
    /\ SetDeadlinePast
    /\ UNCHANGED <<clientVars, opVars, txVars, watcherStarts, colVars,
                   grpVars>>

\* case <-done:
WatcherDone ==
    /\ \E o \in HeldOps :
          /\ lingering[o] > 0
          /\ WatcherExits(o)
    /\ UNCHANGED <<clientVars, sockVars, opVars, txVars, watching,
                   watcherStarts, colVars, grpVars>>

\* ---- startReceiveResponse ----

\* the reader task returns err to the group
ColReturn(err) ==
    /\ colPc' = "done"
    /\ colErr' = err
    /\ gErr' = GroupErr(gErr, err)
    /\ firstDone' = IF firstDone = "none" THEN "col" ELSE firstDone

\* what the loop does after http.ReadResponse fails: log and continue
AfterParseErrorReturns == [pc |-> "done", err |-> "ParseErr"]
AfterParseError == [pc |-> "read", err |-> "nil"]

\* response.Header.Add(LocalAddressHeader, a.IP.String()) on a response
\* that has n values of that header
HeaderAdd(n) == n + 1

\* what the loop does with the response after adding the header, n being the
\* responses sent on httpu.receiver so far: nothing, the next iteration
\* overwrites the variable
HandOnSends(n) == n + 1
HandOn(n) == n

\* ReadFrom on a closed socket: neither Timeout() nor Temporary(): return err
ColReadClosed ==
    /\ colPc = "read"
    /\ connClosed
    /\ ColReturn("ReadClosed")
    /\ UNCHANGED <<clientVars, sockVars, opVars, ctxState, txVars, watchVars,
                   nParsed, response>>

\* ReadFrom with the deadline in the past: Timeout(): break, return nil
ColReadTimeout ==
    /\ colPc = "read"
    /\ ~connClosed
    /\ deadlinePast
    /\ ColReturn("nil")
    /\ UNCHANGED <<clientVars, sockVars, opVars, ctxState, txVars, watchVars,
                   nParsed, response>>

\* ReadFrom returns a datagram d: parse it; on success add the local
\* address header; in both cases go to the next read
ColReadDatagram ==
    /\ colPc = "read"
    /\ ~connClosed
    /\ ~deadlinePast
    /\ \E d \in DatagramKinds :
          IF Parses(d)
            THEN /\ nParsed < MaxDatagrams
                 /\ nParsed' = nParsed + 1
                 /\ response' = Parsed(HeaderAdd(InboundLocalHeaders(d)))
                 /\ receiverSent' = HandOn(receiverSent)
                 /\ UNCHANGED <<colPc, colErr, grpVars>>
            ELSE /\ response' = NilResponse
                 /\ IF AfterParseError.pc = "done"
                      THEN ColReturn(AfterParseError.err)
                      ELSE UNCHANGED <<colPc, colErr, grpVars>>
                 /\ UNCHANGED <<nParsed, receiverSent>>
    /\ UNCHANGED <<receiver, connLock, connClosed, closePc, closeRets,
                   sockVars, opVars, ctxState, txVars, watchVars>>

\* ReadFrom fails with a Temporary() error: sleep 10 ms
ColReadTemporaryReturns ==
    /\ colPc = "read"
    /\ ~connClosed
    /\ ~deadlinePast
    /\ ColReturn("ReadTemporary")
    /\ UNCHANGED <<clientVars, sockVars, opVars, ctxState, txVars, watchVars,
                   nParsed, response>>
ColReadTemporary ==
    /\ colPc = "read"
    /\ ~connClosed
    /\ ~deadlinePast
    /\ colPc' = "sleep"
    /\ UNCHANGED <<clientVars, sockVars, opVars, ctxState, txVars, watchVars,
                   colErr, nParsed, response, grpVars>>

\* the sleep ends: continue
ColWake ==
    /\ colPc = "sleep"
    /\ colPc' = "read"
    /\ UNCHANGED <<clientVars, sockVars, opVars, ctxState, txVars, watchVars,
                   colErr, nParsed, response, grpVars>>

\* ReadFrom fails with an error that is neither a timeout nor temporary
ColReadFatal ==
    /\ colPc = "read"
    /\ ~connClosed
    /\ ~deadlinePast
    /\ ColReturn("ReadFatal")
    /\ UNCHANGED <<clientVars, sockVars, opVars, ctxState, txVars, watchVars,
                   nParsed, response>>

\* ---- Close ----

\* httpu.connLock.Lock(): a call proceeds when the lock is free
CloseLock ==
    /\ Len(closeRets) < MaxCloses
    /\ ~connLock
    /\ connLock' = TRUE
    /\ closePc' = "locked"
    /\ UNCHANGED <<receiver, receiverSent, connClosed, closeRets, sockVars,
                   opVars, ctxState, txVars, watchVars, colVars, grpVars>>

\* close(httpu.receiver); a nil or closed channel panics and the deferred
\* Unlock runs
CloseReceiver ==
    /\ closePc = "locked"
    /\ IF receiver = "open"
         THEN /\ receiver' = "closed"
              /\ closePc' = "closing"
              /\ UNCHANGED <<connLock, closeRets>>
         ELSE /\ closePc' = "none"
              /\ closeRets' = Append(closeRets, "panic")
              /\ connLock' = FALSE
              /\ UNCHANGED receiver
    /\ UNCHANGED <<receiverSent, connClosed, sockVars, opVars,
                   ctxState, txVars, watchVars, colVars, grpVars>>

\* return httpu.conn.Close(), then the deferred Unlock
CloseConn ==
    /\ closePc = "closing"
    /\ closePc' = "none"
    /\ closeRets' = Append(closeRets,
                           IF connClosed THEN "ErrClosed" ELSE "nil")
    /\ connClosed' = TRUE
    /\ connLock' = FALSE
    /\ UNCHANGED <<receiver, receiverSent, sockVars, opVars,
                   ctxState, txVars, watchVars, colVars, grpVars>>

Next ==
    \/ DoWithContext
    \/ DoReturn
    \/ CtxFire
    \/ Tick
    \/ TxSendStart
    \/ TxWrite
    \/ TxCtxDone
    \/ WatcherCtx
    \/ WatcherDone
    \/ ColReadClosed
    \/ ColReadTimeout
    \/ ColReadDatagram
    \/ ColReadTemporary
    \/ ColWake
    \/ ColReadFatal
    \/ CloseLock
    \/ CloseReceiver
    \/ CloseConn

Spec == Init /\ [][Next]_vars

\* Scheduling: a goroutine that can run does run, and a read on a closed or
\* timed-out socket returns. The ticker, the contexts, the network (datagrams,
\* read and write errors) and the callers of DoWithContext and Close are not
\* forced to act.
TxStep == TxSendStart \/ TxWrite \/ TxCtxDone
ColStep == ColReadClosed \/ ColReadTimeout \/ ColWake
WatcherStep == WatcherCtx \/ WatcherDone
CloseStep == CloseReceiver \/ CloseConn

FairSpec ==
    /\ Spec
    /\ WF_vars(TxStep)
    /\ WF_vars(ColStep)
    /\ WF_vars(WatcherStep)
    /\ WF_vars(CloseStep)
    /\ WF_vars(DoReturn)

TypeOK ==
    /\ receiver \in {"nil", "open", "closed"}
    /\ receiverSent \in Nat
    /\ connLock \in BOOLEAN
    /\ connClosed \in BOOLEAN
    /\ deadlinePast \in BOOLEAN
    /\ Len(ctxState) = Len(lingering)
    /\ Len(ctxState) \in 1..MaxHeld
    /\ opPc \in {"idle", "running", "returned"}
    /\ txPc \in {"idle", "select", "write", "done"}
    /\ colPc \in {"idle", "read", "sleep", "done"}
    /\ gErr \in {"nil"} \cup SendErrors \cup ReadErrorsReturned \cup CtxErrors

\* ---- properties ----

Running == opPc = "running"
Returned == opPc = "returned"

\* C1: whenever the context of a running operation is done, DoWithContext
\* eventually returns (the watcher forces the deadline into the past and
\* the pending read fails).
C1_CancelReturns == (Running /\ CurDone) ~> Returned

\* C2: every datagram the reader parses as a response is delivered on the
\* receiver channel: when the operation has returned, as many responses have
\* been sent on the channel as were parsed.
C2_ParsedAreDelivered == Returned => receiverSent = nParsed

\* C3: a sender that ends without a failed send (it ended on the cancellation
\* signal between ticks) returns nil, and DoWithContext then returns nil
\* unless the reader failed.
C3_WindowEndIsNoError ==
    (txPc = "done" /\ txErr \notin SendErrors) =>
        /\ txErr = "nil"
        /\ (Returned /\ colErr = "nil") => opResult = "nil"

\* C4: reading a datagram that does not parse leaves the reader in its loop,
\* at the next read, and changes neither its result nor the group's error.
C4_ParseErrorContinues ==
    [][(response' = NilResponse /\ response # NilResponse) =>
          (colPc' = "read" /\ colErr' = colErr /\ gErr' = gErr)]_vars

\* a garbage datagram has been read and the reader is at its next read
C4_Witness == Running /\ response = NilResponse /\ colPc = "read"

\* C5: if Close is called while the reader is blocked in ReadFrom, the reader
\* eventually terminates.
C5_CloseUnblocksRead == (closePc = "locked" /\ colPc = "read") ~> (colPc = "done")

C7_NoSendAfterCancel == [][(Running /\ CurDone) => sends' = sends]_vars

\* C7 as amended: within an operation the number of sends never decreases, and
\* a send starts only from the select, on a pending tick, by a sender that
\* has not returned.
C7_SendsOnlyFromSelect ==
    [][(Running /\ opPc' = "running") =>
          /\ sends' >= sends
          /\ sends' > sends =>
                (tickPending /\ txPc = "select" /\ txErr = "nil")]_vars

\* the sender has sent and then returned on the cancellation branch
C7_Witness == Running /\ txPc = "done" /\ txErr = "CtxErr" /\ sends > 0

\* C8: when a send attempt has failed, the operation returns without any
\* further event.
C8_SendFailureReturns == (Running /\ txErr \in SendErrors) ~> Returned

\* the first non-nil error in the order in which the tasks returned
FirstError ==
    IF firstDone = "tx"
      THEN (IF txErr # "nil" THEN txErr ELSE colErr)
      ELSE (IF colErr # "nil" THEN colErr ELSE txErr)

C10_OnlySendErrors == (Returned /\ opResult # "nil") => opResult \in SendErrors

\* C11: on a client of either constructor the first Close returns without a
\* panic, with the receiver channel and the socket closed, and a write on the
\* closed socket then fails with an error.
C11_CloseOnceSafe ==
    Len(closeRets) >= 1 =>
        /\ closeRets[1] = "nil"
        /\ receiver = "closed"
        /\ connClosed
        /\ WriteOutcomes \subseteq SendErrors

\* C12: every response the reader has parsed carries exactly one value of the
\* goupnp-local-address header, whatever the datagram contained.
C12_ExactlyOneLocalAddr ==
    response.st = "parsed" => response.localAddr = 1

\* C13: no step sends a response on the receiver channel once Close has
\* closed it: a send happens only on an open channel.
C13_NoSendOnClosedReceiver ==
    [][receiverSent' > receiverSent => receiver = "open"]_vars

\* Close has closed the channel and not yet the socket, and the reader of a
\* running operation, which has parsed a response, is at a read that can
\* still return a datagram
C13_Witness ==
    /\ Running
    /\ closePc = "closing"
    /\ receiver = "closed"
    /\ colPc = "read"
    /\ ~deadlinePast
    /\ nParsed > 0

\* C14: the reader ends only on a read error: with nil on a timeout (the
\* socket's deadline is in the past) or with the error itself when the error
\* is neither a timeout nor temporary (that of a closed socket only when the
\* socket is closed); while it pauses after a temporary error it has not
\* returned and has given the group no error.
C14_ReadErrorsClassified ==
    /\ colPc = "done" =>
          \/ colErr = "nil" /\ deadlinePast
          \/ colErr \in ReadErrorsReturned
    /\ colErr = "ReadClosed" => connClosed
    /\ colPc \in {"read", "sleep"} => (colErr = "nil" /\ firstDone # "col")
    /\ (colPc = "sleep" /\ firstDone = "none") => gErr = "nil"

\* the reader of a running operation has ended on a timeout
C14_Witness == Running /\ colPc = "done" /\ colErr = "nil" /\ ~connClosed

\* C15: once the sender has made one send after the context of the running
\* operation was done, it makes no other.
C15_AtMostOneLateSend ==
    [][(Running /\ lateSend) => sends' <= sends]_vars

\* C16: once the socket's deadline is in the past it stays there: from then
\* on a write that ends has failed, a read on the open socket that ends has
\* ended the reader on a timeout (nil), and no datagram is parsed any more,
\* also in the operations that follow on the same client.
C16_DeadlineStaysPast ==
    [][deadlinePast =>
          /\ deadlinePast'
          /\ (txPc = "write" /\ txPc' # "write") =>
                (txPc' = "done" /\ txErr' = "WriteErr")
          /\ (~connClosed /\ colPc = "read" /\ colPc' # "read") =>
                (colPc' = "done" /\ colErr' = "nil")
          /\ nParsed' <= nParsed]_vars

\* an operation whose own context has not fired runs on a socket whose
\* deadline an earlier operation's watcher forced into the past: its send has
\* failed and its reader has ended on a timeout
C16_Witness ==
    /\ Running
    /\ ~CurDone
    /\ deadlinePast
    /\ ~connClosed
    /\ txErr = "WriteErr"
    /\ colPc = "done"
    /\ colErr = "nil"

\* C17: the sender has returned only with the error of a failed send or, its
\* context being done, with the context's error; so while the operation runs
\* with its context not done and no send failed the sender is in its loop,
\* whether or not the reader has ended, and an operation that has returned had
\* its context done or a send failed.
C17_SenderEndsOnlyOnCancelOrFailure ==
    /\ txPc = "done" =>
          \/ txErr \in SendErrors
          \/ txErr \in CtxErrors /\ CurDone
    /\ (Running /\ ~CurDone /\ txErr \notin SendErrors) =>
          txPc \in {"select", "write"}
    /\ Returned => (CurDone \/ txErr \in SendErrors)

\* the reader has ended with an error, the context has not fired, and the
\* sender has sent twice and waits for the next tick
C17_Witness ==
    /\ Running
    /\ ~CurDone
    /\ colPc = "done"
    /\ colErr = "ReadFatal"
    /\ txPc = "select"
    /\ sends >= 2

\* C18: uses of the socket exclude Close: while a Close call holds connLock
\* (before it closes the channel, and between that and closing the socket) no
\* task is inside conn.WriteTo or conn.ReadFrom.
C18_UseUnderLock ==
    closePc # "none" => (txPc # "write" /\ colPc # "read")

\* C19: on a client whose receiver channel a Close has closed, every Close
\* call that has ended returned nil or an error: none panicked.
C19_CloseAtMostOnce ==
    receiver = "closed" =>
        \A i \in DOMAIN closeRets : closeRets[i] \in {"nil", "ErrClosed"}

\* C20 as stated: a send in progress has started exactly one watcher, and no
\* watcher is alive while the sender waits between ticks, after it has
\* returned or after the operation has returned.
C20_NoWatcherOutsideSend ==
    /\ txPc = "write" => watcherStarts = sends
    /\ (txPc \in {"select", "done"} \/ Returned) =>
          (~watching /\ \A o \in HeldOps : lingering[o] = 0)

\* C20 as amended: every send that reaches WriteTo has started exactly one
\* watcher and a send that failed before it none; a watcher whose done channel
\* is open belongs to the send in progress; the watchers of the operation's
\* returned sends that are still alive are among those it started.
C20_OneWatcherPerSend ==
    /\ watching => txPc = "write"
    /\ txPc = "write" => watcherStarts = sends
    /\ watcherStarts <= sends
    /\ sends <= watcherStarts + 1
    /\ watcherStarts < sends => (txPc = "done" /\ txErr = "ResolveErr")
    /\ lingering[1] + (IF watching THEN 1 ELSE 0) <= watcherStarts

\* the watcher of a returned send is alive while the sender waits for a tick
C20_Witness == Running /\ txPc = "select" /\ lingering[1] > 0

\* C21 as stated: the sends of an operation never exceed the ticks elapsed in
\* it (so none is made before the first tick), and the sender of an operation
\* that was cancelled before its first tick makes no send: its next step out of
\* the select, after which it has returned, is not a send.
C21_SendsFollowTicks ==
    [][/\ sends' <= ticks'
       /\ (Running /\ earlyCancel) => sends' = sends]_vars

\* C21 as amended: every send has consumed one tick of the ticker: the sends
\* never exceed the ticks, the ticks exceed the sends by the one tick buffered
\* in the channel, if any, and a sender that has returned with no tick elapsed
\* has sent nothing and returned on the cancellation branch.
C21_SendsConsumeTicks ==
    /\ sends <= ticks
    /\ ticks = sends + (IF tickPending THEN 1 ELSE 0)
    /\ (txPc = "done" /\ ticks = 0) => (sends = 0 /\ txErr \in CtxErrors)
    /\ earlyCancel => (CurDone /\ txPc = "select" /\ sends = 0)

\* two ticks have elapsed and both have been answered by a send
C21_Witness == Running /\ ticks = 2 /\ sends = 2 /\ ~tickPending

====
